---- MODULE Spec2Model ----
(***************************************************************************)
(* Model of rin_throwback_post.py: the eligibility engine, the atomic      *)
(* history write and the run orchestrator (main).                          *)
(***************************************************************************)
EXTENDS Integers, Sequences, FiniteSets, TLC

VARIABLES
    manifest,   \* the manifest list handed to _eligible_entries / loaded by main
    history,    \* the history list (in memory)
    now,        \* the run time (an aware datetime in UTC)
    eligible,   \* the list _eligible_entries returned
    pc,         \* position of the process
    calls,      \* the calls of the helper under study made so far, with their results
    histFile,   \* the file at the history path
    tmpFile,    \* the file at the history path + ".tmp"
    histBefore, \* the history file as it was when the operation started
    manifestFile,    \* the file at the manifest path
    args,            \* the command line of the run
    chosen,          \* the manifest entry main chose
    exitCode,        \* the exit status of the run, -1 while it runs
    tw,              \* state of the Twitter adapter in this run
    bs,              \* state of the Bluesky adapter in this run
    twitter_post_id, \* main's local of that name
    bluesky_uri,     \* main's local of that name
    bluesky_url,     \* main's local of that name
    ops,             \* the renderings and network calls of this run, in order
    writes,          \* the calls of _save_json in this run
    runNo,           \* the runs started so far
    published,       \* the posts created so far: item key, run, time
    overrideUsed,    \* some run so far was given --set-name
    failure,         \* the failure that ended the run (what the diagnostic reports), "none" otherwise
    tempFiles,       \* the temporary image files this run created that still exist
    tmp_path         \* main's local of that name

fileVars == <<histFile, tmpFile, histBefore>>

runVars == <<manifestFile, args, chosen, exitCode, tw, bs, twitter_post_id, bluesky_uri,
             bluesky_url, ops, writes, runNo, published, overrideUsed, failure, tempFiles,
             tmp_path>>

vars == <<manifest, history, now, eligible, pc, calls, fileVars, runVars>>

----------------------------------------------------------------------------
(* Bounds of the model *)

MaxManifest == 2      \* longest manifest
MaxHist == 2          \* longest input history
ThresholdDays == 2    \* --threshold-days
SlotsPerDay == 4      \* instants per calendar day (time granularity)
MaxCalls == 2         \* calls of _days_ago recorded

----------------------------------------------------------------------------
(* Python values *)

\* A str is a sequence of characters.  A missing key, JSON null and "" are
\* all falsy and the code reads them only through `x or ""`, so the three
\* are the empty sequence.
SP == " "
EmptyStr == <<>>

Truthy(s) == s # EmptyStr

\* Python's `a or b`
Or(a, b) == IF Truthy(a) THEN a ELSE b

RECURSIVE LStrip(_)
LStrip(s) == IF s # <<>> /\ Head(s) = SP THEN LStrip(Tail(s)) ELSE s

RECURSIVE RStrip(_)
RStrip(s) == IF s # <<>> /\ s[Len(s)] = SP THEN RStrip(SubSeq(s, 1, Len(s) - 1)) ELSE s

\* str.strip()
Strip(s) == RStrip(LStrip(s))

\* A timestamp field of a history record:
\*   kind "none": key missing, null or "" (falsy);
\*   kind "bad":  a value datetime.fromisoformat rejects;
\*   kind "ok":   an aware datetime, t the instant (slots since the epoch,
\*                UTC) and off its UTC offset in slots.
NoTs == [kind |-> "none", t |-> 0, off |-> 0]
BadTs == [kind |-> "bad", t |-> 0, off |-> 0]
At(t, off) == [kind |-> "ok", t |-> t, off |-> off]

\* `a or b` on timestamp fields
OrTs(a, b) == IF a.kind # "none" THEN a ELSE b

\* datetime.date(): the calendar date of the datetime in its own offset
DateOf(when) == (when.t + when.off) \div SlotsPerDay

_days_ago(ts, now_) == DateOf(now_) - DateOf(ts)

----------------------------------------------------------------------------
(* Files *)

\* A JSON file: whether it exists, whether its text is that of a list, the
\* items of the list written so far, and whether the text is complete (the
\* closing bracket and the final newline are written).  A file holding a
\* JSON value that is not a list has kind "other".
Absent == [exists |-> FALSE, kind |-> "list", items |-> <<>>, complete |-> FALSE]
Created == [exists |-> TRUE, kind |-> "list", items |-> <<>>, complete |-> FALSE]
ListFile(data) == [exists |-> TRUE, kind |-> "list", items |-> data, complete |-> TRUE]
OtherFile == [exists |-> TRUE, kind |-> "other", items |-> <<>>, complete |-> TRUE]

\* a JSON null, and a key the record does not have
None == "None"
NoKey == "absent"

NoArgs ==
    [dry_run |-> FALSE, record_dry_run |-> FALSE, platform |-> "both", set_name |-> EmptyStr,
     seed |-> None]

NoEntry == [filename |-> EmptyStr, set_name |-> EmptyStr, set_url |-> EmptyStr,
            date_published |-> EmptyStr]

\* no run of main is in progress and none has been
NoRun ==
    /\ manifestFile = Absent
    /\ args = NoArgs
    /\ chosen = NoEntry
    /\ exitCode = -1
    /\ tw = "NotRun"
    /\ bs = "NotRun"
    /\ twitter_post_id = None
    /\ bluesky_uri = None
    /\ bluesky_url = None
    /\ ops = <<>>
    /\ writes = 0
    /\ runNo = 0
    /\ published = {}
    /\ overrideUsed = FALSE
    /\ failure = "none"
    /\ tempFiles = {}
    /\ tmp_path = None

----------------------------------------------------------------------------
(* _eligible_entries *)

\* key of a history record (line 243)
HistoryKey(h) == Strip(Or(Or(h.set_url, h.set_name), EmptyStr))

\* ts of a history record (line 244)
HistoryTs(h) == OrTs(h.posted_at, h.tweeted_at)

\* key of a manifest entry (lines 256-258)
EntryKey(e) == Or(Strip(Or(e.set_url, EmptyStr)), Strip(Or(e.set_name, EmptyStr)))

EmptyIndex == [k \in {} |-> NoTs]

IndexStep_bad_aborts(last, h) ==
    LET key == HistoryKey(h)
        ts == HistoryTs(h)
    IN  IF ~Truthy(key) \/ ts.kind = "none" THEN last
        ELSE IF ts.kind = "bad" THEN EmptyIndex
        ELSE IF key \notin DOMAIN last \/ ts.t > last[key].t
             THEN [k \in DOMAIN last \cup {key} |-> IF k = key THEN ts ELSE last[k]]
             ELSE last

\* one iteration of the loop over history (lines 242-252)
IndexStep(last, h) ==
    LET key == HistoryKey(h)
        ts == HistoryTs(h)
    IN  IF ~Truthy(key) \/ ts.kind = "none" THEN last
        ELSE IF ts.kind = "bad" THEN last
        ELSE IF key \notin DOMAIN last \/ ts.t > last[key].t
             THEN [k \in DOMAIN last \cup {key} |-> IF k = key THEN ts ELSE last[k]]
             ELSE last

RECURSIVE BuildLast(_, _)
BuildLast(hist, last) ==
    IF hist = <<>> THEN last
    ELSE BuildLast(Tail(hist), IndexStep(last, Head(hist)))

\* the identity-to-last-seen index of a history
LastSeen(hist) == BuildLast(hist, EmptyIndex)

IsEligible_strict(e, last, threshold_days, now_) ==
    LET key == EntryKey(e)
    IN  /\ Truthy(key)
        /\ \/ key \notin DOMAIN last
           \/ _days_ago(last[key], now_) > threshold_days

\* the test of one manifest entry (lines 256-263)
IsEligible(e, last, threshold_days, now_) ==
    LET key == EntryKey(e)
    IN  /\ Truthy(key)
        /\ \/ key \notin DOMAIN last
           \/ _days_ago(last[key], now_) >= threshold_days

RECURSIVE Keep(_, _, _, _)
Keep(m, last, threshold_days, now_) ==
    IF m = <<>> THEN <<>>
    ELSE LET rest == Keep(Tail(m), last, threshold_days, now_)
         IN  IF IsEligible(Head(m), last, threshold_days, now_)
             THEN <<Head(m)>> \o rest
             ELSE rest

_eligible_entries(m, hist, threshold_days, now_) ==
    Keep(m, LastSeen(hist), threshold_days, now_)

----------------------------------------------------------------------------
(* Inputs of the eligibility engine *)

NowDay == ThresholdDays + 1

\* last instant of the day exactly ThresholdDays before NowDay
OldInstant == SlotsPerDay * (NowDay - ThresholdDays) + (SlotsPerDay - 1)
\* first instant of the next day: ThresholdDays - 1 days before NowDay
NewInstant == SlotsPerDay * (NowDay - ThresholdDays + 1)

U == <<"u">>
V == <<"v">>
N == <<"n">>
Blank == <<SP>>

SeqsUpTo(S, n) == UNION {[1..k -> S] : k \in 0..n}

Fields(k) == [set_url |-> k[1], set_name |-> k[2]]

Stamped(k, st) ==
    [set_url |-> k[1], set_name |-> k[2], posted_at |-> st[1], tweeted_at |-> st[2]]

\* manifest entries: two sets with a URL, one with a name only, one with neither
EntryPool == { Fields(k) : k \in {<<U, N>>, <<V, N>>, <<EmptyStr, N>>, <<EmptyStr, EmptyStr>>} }

HistoryKeys == {<<U, N>>, <<EmptyStr, N>>}

\* <<posted_at, tweeted_at>> of a history record
HistoryStamps ==
    { <<At(OldInstant, 0), NoTs>>, <<At(NewInstant, 0), NoTs>>, <<At(NewInstant, -1), NoTs>>,
      <<BadTs, NoTs>>, <<NoTs, NoTs>>, <<NoTs, At(NewInstant, 0)>> }

HistoryPool == { Stamped(k, st) : k \in HistoryKeys, st \in HistoryStamps }

\* the same with padded and whitespace-only fields, and fewer timestamps
PaddedU == <<SP, "u">>

KeyEntryPool ==
    { Fields(k) : k \in {<<U, N>>, <<V, N>>, <<PaddedU, N>>, <<Blank, N>>,
                         <<EmptyStr, N>>, <<EmptyStr, EmptyStr>>} }

KeyHistoryPool ==
    { Stamped(k, st) :
        k \in {<<U, N>>, <<V, N>>, <<PaddedU, N>>, <<Blank, N>>, <<EmptyStr, N>>},
        st \in {<<At(OldInstant, 0), NoTs>>, <<At(NewInstant, 0), NoTs>>} }

\* the run starts in the first instant of NowDay
NowPool == { At(SlotsPerDay * NowDay, 0) }

EligInit ==
    /\ manifest \in SeqsUpTo(EntryPool, MaxManifest)
    /\ history \in SeqsUpTo(HistoryPool, MaxHist)
    /\ now \in NowPool
    /\ eligible = <<>>
    /\ pc = "call"
    /\ calls = {}
    /\ histFile = Absent
    /\ tmpFile = Absent
    /\ histBefore = Absent
    /\ NoRun

EligCall ==
    /\ pc = "call"
    /\ eligible' = _eligible_entries(manifest, history, ThresholdDays, now)
    /\ pc' = "returned"
    /\ UNCHANGED <<manifest, history, now, calls, fileVars, runVars>>

EligNext == EligCall

SpecElig == EligInit /\ [][EligNext]_vars

KeysInit ==
    /\ manifest \in SeqsUpTo(KeyEntryPool, MaxManifest)
    /\ history \in SeqsUpTo(KeyHistoryPool, MaxHist)
    /\ now \in NowPool
    /\ eligible = <<>>
    /\ pc = "call"
    /\ calls = {}
    /\ histFile = Absent
    /\ tmpFile = Absent
    /\ histBefore = Absent
    /\ NoRun

SpecKeys == KeysInit /\ [][EligNext]_vars

----------------------------------------------------------------------------
(* Properties of the eligibility engine *)

Range(s) == {s[i] : i \in 1..Len(s)}

\* the positions of the history records that count for key k
Parsable(hist, k) ==
    {i \in 1..Len(hist) : HistoryKey(hist[i]) = k /\ HistoryTs(hist[i]).kind = "ok"}

\* what the claim asks of one manifest entry, given the index
Wanted(e) ==
    LET last == LastSeen(history)
        k == EntryKey(e)
    IN  /\ k # EmptyStr
        /\ \/ k \notin DOMAIN last
           \/ DateOf(now) - DateOf(last[k]) >= ThresholdDays

KeptPositions == {i \in 1..Len(manifest) : Wanted(manifest[i])}

\* C5: _eligible_entries returns exactly the subsequence of the manifest, in
\* manifest order, of the entries with a non-empty key that have no last-seen
\* time or days_ago(last_seen, now) >= threshold_days; an entry last posted
\* exactly threshold_days calendar days before now is returned, one last
\* posted threshold_days - 1 days before now is not.
C5_EligibleIsManifestSubsequence ==
    pc = "returned" =>
        /\ Len(eligible) = Cardinality(KeptPositions)
        /\ \E f \in [1..Len(eligible) -> 1..Len(manifest)] :
              /\ \A i, j \in 1..Len(eligible) : i < j => f[i] < f[j]
              /\ {f[i] : i \in 1..Len(eligible)} = KeptPositions
              /\ \A i \in 1..Len(eligible) : eligible[i] = manifest[f[i]]
        /\ \A i \in 1..Len(manifest) :
              LET k == EntryKey(manifest[i])
                  last == LastSeen(history)
              IN  (k # EmptyStr /\ k \in DOMAIN last) =>
                    /\ DateOf(now) - DateOf(last[k]) = ThresholdDays
                          => manifest[i] \in Range(eligible)
                    /\ DateOf(now) - DateOf(last[k]) = ThresholdDays - 1
                          => manifest[i] \notin Range(eligible)

\* Two entries around one that is dropped: the order and the threshold both show.
C5_Witness ==
    /\ pc = "returned"
    /\ Len(manifest) = 2
    /\ Len(eligible) = 1
    /\ eligible[1] = manifest[2]
    /\ EntryKey(manifest[1]) # EmptyStr
    /\ EntryKey(manifest[2]) # EmptyStr
    /\ \E i \in 1..Len(history) :
          /\ HistoryKey(history[i]) = EntryKey(manifest[2])
          /\ HistoryTs(history[i]).kind = "ok"
          /\ DateOf(now) - DateOf(HistoryTs(history[i])) = ThresholdDays
    /\ \E i \in 1..Len(history) :
          /\ HistoryKey(history[i]) = EntryKey(manifest[1])
          /\ HistoryTs(history[i]).kind = "ok"
          /\ DateOf(now) - DateOf(HistoryTs(history[i])) = ThresholdDays - 1

RECURSIVE OnlyKey(_, _)
OnlyKey(hist, k) ==
    IF hist = <<>> THEN <<>>
    ELSE IF HistoryKey(Head(hist)) = k THEN <<Head(hist)>> \o OnlyKey(Tail(hist), k)
    ELSE OnlyKey(Tail(hist), k)

\* C6: the key of a manifest entry and of a history record is set_url when
\* present, otherwise set_name, computed the same way on both sides; an entry
\* with both fields is decided only by the records whose key is its set_url.
C6_SameKeyOnBothSides ==
    /\ \A i \in 1..Len(manifest) : \A j \in 1..Len(history) :
          (/\ manifest[i].set_url = history[j].set_url
           /\ manifest[i].set_name = history[j].set_name)
              => EntryKey(manifest[i]) = HistoryKey(history[j])
    /\ pc = "returned" =>
          \A i \in 1..Len(manifest) :
             LET e == manifest[i]
             IN  (Strip(e.set_url) # EmptyStr /\ Strip(e.set_name) # EmptyStr) =>
                   (e \in Range(eligible) <=>
                      _eligible_entries(<<e>>, OnlyKey(history, Strip(e.set_url)),
                                        ThresholdDays, now) = <<e>>)

RECURSIVE WithoutUnparsable(_)
WithoutUnparsable(hist) ==
    IF hist = <<>> THEN <<>>
    ELSE IF HistoryTs(Head(hist)).kind = "bad" THEN WithoutUnparsable(Tail(hist))
    ELSE <<Head(hist)>> \o WithoutUnparsable(Tail(hist))

\* C7: a history record whose timestamp cannot be parsed is skipped when the
\* index is built: the index and the result are those of the history without
\* it, and the index value of a key is the most recent timestamp among that
\* key's parsable records.
C7_UnparsableSkipped ==
    LET last == LastSeen(history)
    IN  /\ last = LastSeen(WithoutUnparsable(history))
        /\ DOMAIN last = {HistoryKey(history[i]) :
                            i \in {j \in 1..Len(history) :
                                     /\ HistoryKey(history[j]) # EmptyStr
                                     /\ HistoryTs(history[j]).kind = "ok"}}
        /\ \A k \in DOMAIN last :
              /\ \E i \in Parsable(history, k) : last[k] = HistoryTs(history[i])
              /\ \A i \in Parsable(history, k) : HistoryTs(history[i]).t <= last[k].t
        /\ pc = "returned" =>
              eligible = _eligible_entries(manifest, WithoutUnparsable(history),
                                           ThresholdDays, now)

\* An unparsable record follows a recent parsable one of the same key: the
\* entry stays ineligible.
C7_Witness ==
    /\ pc = "returned"
    /\ Len(history) = 2
    /\ HistoryTs(history[1]).kind = "ok"
    /\ HistoryTs(history[2]).kind = "bad"
    /\ HistoryKey(history[1]) = HistoryKey(history[2])
    /\ HistoryKey(history[1]) # EmptyStr
    /\ \E i \in 1..Len(manifest) :
          /\ EntryKey(manifest[i]) = HistoryKey(history[1])
          /\ manifest[i] \notin Range(eligible)

----------------------------------------------------------------------------
(* _days_ago on its own *)

DayStamps == { At(t, off) : t \in 0..(2 * SlotsPerDay - 1), off \in {-1, 0, 1} }

DayNows == { At(t, 0) : t \in SlotsPerDay..(2 * SlotsPerDay - 1) }

\* the offsets a reference timezone may have
Zones == (0 - SlotsPerDay)..SlotsPerDay

DaysInit ==
    /\ calls = {}
    /\ manifest = <<>>
    /\ history = <<>>
    /\ now = At(0, 0)
    /\ eligible = <<>>
    /\ pc = "days"
    /\ histFile = Absent
    /\ tmpFile = Absent
    /\ histBefore = Absent
    /\ NoRun

DaysCall ==
    /\ pc = "days"
    /\ Cardinality(calls) < MaxCalls
    /\ \E ts \in DayStamps, n \in DayNows :
          calls' = calls \cup {[ts |-> ts, now |-> n, days |-> _days_ago(ts, n)]}
    /\ UNCHANGED <<manifest, history, now, eligible, pc, fileVars, runVars>>

DaysNext == DaysCall

SpecDays == DaysInit /\ [][DaysNext]_vars

\* C8: days_ago is the difference of the calendar dates of ts and now in one
\* single fixed reference timezone, for every pair of timestamps, whatever
\* their UTC offsets.
C8_OneReferenceZone ==
    \E z \in Zones :
        \A c \in calls :
            c.days = ((c.now.t + z) \div SlotsPerDay) - ((c.ts.t + z) \div SlotsPerDay)

----------------------------------------------------------------------------
(* _save_json(path, data), step by step, and a crash of the process *)

SavePool == {r \in HistoryPool : r.set_url = U /\ r.posted_at.kind = "ok" /\ r.posted_at.off = 0}

SaveInit ==
    /\ histFile \in {Absent, OtherFile} \cup {ListFile(d) : d \in SeqsUpTo(SavePool, MaxHist)}
    /\ histBefore = histFile
    /\ tmpFile \in {Absent, Created}
    /\ history \in SeqsUpTo(SavePool, MaxHist)
    /\ pc = "save_open"
    /\ manifest = <<>>
    /\ now = At(0, 0)
    /\ eligible = <<>>
    /\ calls = {}
    /\ NoRun

SaveOpenTmp_opens_path ==
    /\ pc = "save_open"
    /\ histFile' = Created
    /\ pc' = "save_write"
    /\ UNCHANGED <<manifest, history, now, eligible, calls, tmpFile, histBefore, runVars>>

\* tmp.open("w") (lines 62-63): the temporary file is created or truncated
SaveOpenTmp ==
    /\ pc = "save_open"
    /\ tmpFile' = Created
    /\ pc' = "save_write"
    /\ UNCHANGED <<manifest, history, now, eligible, calls, histFile, histBefore, runVars>>

\* json.dump and f.write (lines 64-65): the text reaches the file piece by piece
SaveWrite ==
    /\ pc = "save_write"
    /\ IF Len(tmpFile.items) < Len(history)
       THEN /\ tmpFile' = [tmpFile EXCEPT !.items = Append(@, history[Len(@) + 1])]
            /\ pc' = "save_write"
       ELSE /\ tmpFile' = [tmpFile EXCEPT !.complete = TRUE]
            /\ pc' = "save_rename"
    /\ UNCHANGED <<manifest, history, now, eligible, calls, histFile, histBefore, runVars>>

\* tmp.replace(path) (line 66)
SaveRename ==
    /\ pc = "save_rename"
    /\ histFile' = tmpFile
    /\ tmpFile' = Absent
    /\ pc' = "saved"
    /\ UNCHANGED <<manifest, history, now, eligible, calls, histBefore, runVars>>

CrashedAt(p) ==
    CASE p = "save_open" -> "crashed_before_open"
      [] p = "save_write" -> "crashed_in_write"
      [] p = "save_rename" -> "crashed_before_rename"

\* the process dies inside _save_json
SaveCrash ==
    /\ pc \in {"save_open", "save_write", "save_rename"}
    /\ pc' = CrashedAt(pc)
    /\ UNCHANGED <<manifest, history, now, eligible, calls, fileVars, runVars>>

SaveNext == SaveOpenTmp \/ SaveWrite \/ SaveRename \/ SaveCrash

SpecSave == SaveInit /\ [][SaveNext]_vars

\* C9: _save_json writes the complete new content to the temporary sibling
\* path and only then renames it over the history file: the history file
\* holds its previous content until the rename and never partial content, and
\* after a crash that follows the opening of the temporary file and precedes
\* the rename the temporary file is present (holding the complete new content
\* once it is written).
C9_AtomicHistoryWrite ==
    /\ histFile \in {histBefore, ListFile(history)}
    /\ histFile.exists => histFile.complete
    /\ pc # "saved" => histFile = histBefore
    /\ pc = "saved" => histFile = ListFile(history)
    /\ pc \in {"save_write", "save_rename", "crashed_in_write", "crashed_before_rename"}
          => tmpFile.exists
    /\ pc \in {"save_rename", "crashed_before_rename"} => tmpFile = ListFile(history)

C9_Witness ==
    /\ pc = "crashed_before_rename"
    /\ histBefore.exists
    /\ histFile = histBefore
    /\ history # histBefore.items
    /\ tmpFile = ListFile(history)

----------------------------------------------------------------------------
(* main: one run after another on the same manifest and history files *)

MaxRuns == 2

\* html.unescape, one character at a time; "&amp;" stands for the entity
Unescape(c) == IF c = "&amp;" THEN "&" ELSE c

\* _normalize_quotes, one character at a time; the characters are named:
\* "lsquo", "rsquo" and "sbquo" are U+2018, U+2019 and U+201A
NormalizeQuote(c) ==
    IF c \in {"backtick", "lsquo", "rsquo", "sbquo"} THEN "apostrophe" ELSE c

\* str.casefold, one character at a time
Casefold(c) == CASE c = "A" -> "a" [] c = "B" -> "b" [] OTHER -> c

RECURSIVE UnescapeAll(_)
UnescapeAll(s) == IF s = <<>> THEN <<>> ELSE <<Unescape(Head(s))>> \o UnescapeAll(Tail(s))

RECURSIVE _normalize_quotes(_)
_normalize_quotes(s) ==
    IF s = <<>> THEN <<>> ELSE <<NormalizeQuote(Head(s))>> \o _normalize_quotes(Tail(s))

RECURSIVE CasefoldAll(_)
CasefoldAll(s) == IF s = <<>> THEN <<>> ELSE <<Casefold(Head(s))>> \o CasefoldAll(Tail(s))

_normalized_set_name_for_match(name) ==
    CasefoldAll(_normalize_quotes(UnescapeAll(Strip(Or(name, EmptyStr)))))

RECURSIVE Matches(_, _)
Matches(m, target) ==
    IF m = <<>> THEN <<>>
    ELSE IF _normalized_set_name_for_match(Head(m).set_name) = target
         THEN <<Head(m)>> \o Matches(Tail(m), target)
         ELSE Matches(Tail(m), target)

_load_history_forgets(f) == <<>>

_load_history(f) ==
    IF ~f.exists THEN <<>>
    ELSE IF f.kind = "list" THEN f.items ELSE <<>>

\* the history file once _save_json(history_path, data) has returned
_save_json(data) == ListFile(data)

\* the locals main derives from the chosen entry (lines 521-525)
Filename(e) == Strip(Or(e.filename, EmptyStr))
SetName(e) == _normalize_quotes(UnescapeAll(Strip(Or(e.set_name, EmptyStr))))
SetUrl(e) == Strip(Or(e.set_url, EmptyStr))
DatePublished(e) == Strip(Or(e.date_published, EmptyStr))

HasRequiredFields_ignores_filename(e) ==
    /\ Truthy(SetName(e))
    /\ Truthy(SetUrl(e))
    /\ Truthy(DatePublished(e))

\* line 530
HasRequiredFields(e) ==
    /\ Truthy(Filename(e))
    /\ Truthy(SetName(e))
    /\ Truthy(SetUrl(e))
    /\ Truthy(DatePublished(e))

\* the record of a dry run (lines 562-568)
DryRecord ==
    [twitter_post_id |-> None, bluesky_uri |-> NoKey, bluesky_url |-> NoKey,
     posted_at |-> now, tweeted_at |-> NoTs,
     filename |-> Filename(chosen), set_name |-> SetName(chosen), set_url |-> SetUrl(chosen)]

\* the record of a real run (lines 653-661)
PostRecord ==
    [twitter_post_id |-> twitter_post_id, bluesky_uri |-> bluesky_uri,
     bluesky_url |-> bluesky_url,
     posted_at |-> now, tweeted_at |-> NoTs,
     filename |-> Filename(chosen), set_name |-> SetName(chosen), set_url |-> SetUrl(chosen)]

\* _fmt_publish_date (lines 73-75): datetime.fromisoformat accepts the text
IsIsoDate(s) == s = <<"d">>

E1 == [filename |-> <<"f">>, set_name |-> <<"A", "&amp;">>, set_url |-> <<SP, "u">>,
       date_published |-> <<"d">>]
E2 == [filename |-> <<"g">>, set_name |-> <<"B">>, set_url |-> V, date_published |-> <<"d">>]
E3 == [filename |-> EmptyStr, set_name |-> <<"c">>, set_url |-> <<"w">>,
       date_published |-> <<"d">>]
E4 == [filename |-> <<"h">>, set_name |-> <<"e">>, set_url |-> <<"y">>,
       date_published |-> <<"x">>]

ManifestFiles ==
    {Absent, OtherFile, ListFile(<<E1, E2>>), ListFile(<<E3, E1>>), ListFile(<<E4>>)}

\* the command lines: real runs on each platform selection, dry runs (which
\* never read --platform) with the default one, and one seeded run
ArgsPool ==
    { [dry_run |-> FALSE, record_dry_run |-> FALSE, platform |-> p, set_name |-> n,
       seed |-> None] :
        p \in {"twitter", "bluesky", "both"}, n \in {EmptyStr, <<"a", "&">>, <<"x">>} }
    \cup { [dry_run |-> TRUE, record_dry_run |-> r, platform |-> "both", set_name |-> n,
            seed |-> None] :
        r \in BOOLEAN, n \in {EmptyStr, <<"a", "&">>, <<"x">>} }
    \cup { [NoArgs EXCEPT !.seed = "1"] }

\* days between the start of one run and the next: one short of the threshold, and the threshold
DayJumps == {ThresholdDays - 1, ThresholdDays}

\* the status main returns on each failure; an uncaught exception (the
\* ValueError of _fmt_publish_date, line 541) ends the interpreter with 1
ExitCodes ==
    [manifest_not_found |-> 2, manifest_not_list |-> 2,
     name_not_found |-> 3, no_eligible |-> 3,
     incomplete_entry |-> 4,
     image_not_found |-> 5,
     date_invalid |-> 1,
     template_render |-> 9,
     twitter_auth_not_found |-> 6, twitter_auth_malformed |-> 6,
     twitter_auth_missing_key |-> 6, twitter_init |-> 6,
     twitter_prepare |-> 7, twitter_upload |-> 7,
     twitter_create |-> 8,
     bluesky_auth_not_found |-> 10,
     bluesky_template_render |-> 11, bluesky_auth_malformed |-> 11,
     bluesky_auth_missing_key |-> 11, bluesky_login |-> 11, bluesky_prepare |-> 11,
     bluesky_upload |-> 11, bluesky_create |-> 11]

ExitStatus_create_as_upload(class) == [ExitCodes EXCEPT !.twitter_create = 7][class]

ExitStatus(class) == ExitCodes[class]

\* random.Random(seed).choice(seq) is seq[_randbelow(len(seq))]: the generator
\* is seeded and drawn from once, so the index is a function of seed and n
\* (--seed is a string; "1" and "2" are the seeds of the model)
RandBelow(seed, n) == (IF seed = "1" THEN 1 ELSE 2) % n

\* the temporary file of a platform's media preparation: the name mkstemp
\* gives, and that name with the suffix .jpg (line 150)
TmpName(platform) == IF platform = "twitter" THEN "twitter.tmp" ELSE "bluesky.tmp"
JpgName(platform) == IF platform = "twitter" THEN "twitter.tmp.jpg" ELSE "bluesky.tmp.jpg"

\* what _prepare_image_for_upload meets
PrepareCases ==
    {"fits", "no_magick", "unsupported", "tool_fails", "tool_fails_output_left", "resized",
     "still_too_large", "png_as_jpg", "png_as_jpg_still_too_large"}

\* _prepare_image_for_upload: whether it raises, the tmp_path it returns and
\* the temporary files that exist when it returns or raises
_prepare_image_for_upload(case, platform) ==
    CASE case = "fits" -> [raised |-> FALSE, tmp_path |-> None, left |-> {}]
      [] case \in {"no_magick", "unsupported", "tool_fails"} ->
            [raised |-> TRUE, tmp_path |-> None, left |-> {}]
      [] case = "tool_fails_output_left" ->
            [raised |-> TRUE, tmp_path |-> None, left |-> {TmpName(platform)}]
      [] case = "resized" ->
            [raised |-> FALSE, tmp_path |-> TmpName(platform), left |-> {TmpName(platform)}]
      [] case = "still_too_large" ->
            [raised |-> TRUE, tmp_path |-> None, left |-> {TmpName(platform)}]
      [] case = "png_as_jpg" ->
            [raised |-> FALSE, tmp_path |-> JpgName(platform), left |-> {JpgName(platform)}]
      [] case = "png_as_jpg_still_too_large" ->
            [raised |-> TRUE, tmp_path |-> None, left |-> {JpgName(platform)}]

\* lines 358-371: the web URL of a post URI of the expected form
_bluesky_web_url_from_at_uri(at_uri) == IF at_uri = "at_uri" THEN "web_url" ELSE None

\* tmp_path.unlink(missing_ok=True) under `if tmp_path:` (lines 605-606, 650-651)
Unlink(files, path) == IF path # None THEN files \ {path} ELSE files

RunInit ==
    /\ manifestFile \in ManifestFiles
    /\ histFile \in {Absent, OtherFile}
    /\ histBefore = histFile
    /\ tmpFile = Absent
    /\ manifest = <<>>
    /\ history = <<>>
    /\ now = At(0, 0)
    /\ eligible = <<>>
    /\ calls = {}
    /\ pc = "exited"
    /\ args = NoArgs
    /\ chosen = NoEntry
    /\ exitCode = -1
    /\ tw = "NotRun"
    /\ bs = "NotRun"
    /\ twitter_post_id = None
    /\ bluesky_uri = None
    /\ bluesky_url = None
    /\ ops = <<>>
    /\ writes = 0
    /\ runNo = 0
    /\ published = {}
    /\ overrideUsed = FALSE
    /\ failure = "none"
    /\ tempFiles = {}
    /\ tmp_path = None

\* return 0
Finish(code) == pc' = "exited" /\ exitCode' = code /\ UNCHANGED failure

\* print the diagnostic and return the status of the failure (or die of the exception)
Fail(class) == pc' = "exited" /\ exitCode' = ExitStatus(class) /\ failure' = class

Continue(next) == pc' = next /\ UNCHANGED <<exitCode, failure>>

\* lines 472-502: parse the arguments, load the manifest and the history
RunStart ==
    /\ pc = "exited"
    /\ runNo < MaxRuns
    /\ runNo' = runNo + 1
    /\ \E a \in ArgsPool, jump \in DayJumps :
          /\ args' = a
          /\ now' = At(now.t + jump * SlotsPerDay, 0)
          /\ overrideUsed' = (overrideUsed \/ Truthy(a.set_name))
    /\ histBefore' = histFile
    /\ chosen' = NoEntry
    /\ eligible' = <<>>
    /\ tw' = "NotRun"
    /\ bs' = "NotRun"
    /\ twitter_post_id' = None
    /\ bluesky_uri' = None
    /\ bluesky_url' = None
    /\ ops' = <<>>
    /\ writes' = 0
    /\ tempFiles' = {}
    /\ tmp_path' = None
    /\ IF ~manifestFile.exists
       THEN /\ manifest' = <<>>
            /\ history' = <<>>
            /\ Fail("manifest_not_found")
       ELSE IF manifestFile.kind # "list"
       THEN /\ manifest' = <<>>
            /\ history' = <<>>
            /\ Fail("manifest_not_list")
       ELSE /\ manifest' = manifestFile.items
            /\ history' = _load_history(histFile)
            /\ pc' = "select"
            /\ exitCode' = -1
            /\ failure' = "none"
    /\ UNCHANGED <<calls, histFile, tmpFile, manifestFile, published>>

Select_ignores_seed ==
    /\ pc = "select"
    /\ IF Truthy(args.set_name)
       THEN LET matches == Matches(manifest, _normalized_set_name_for_match(args.set_name))
            IN  /\ UNCHANGED eligible
                /\ IF matches = <<>>
                   THEN Fail("name_not_found") /\ UNCHANGED chosen
                   ELSE chosen' = matches[1] /\ Continue("validate")
       ELSE LET el == _eligible_entries(manifest, history, ThresholdDays, now)
            IN  /\ eligible' = el
                /\ IF el = <<>>
                   THEN Fail("no_eligible") /\ UNCHANGED chosen
                   ELSE \E i \in 1..Len(el) : chosen' = el[i] /\ Continue("validate")
    /\ UNCHANGED <<manifest, history, now, calls, fileVars, manifestFile, args, tw, bs,
                   twitter_post_id, bluesky_uri, bluesky_url, ops, writes, runNo,
                   published, overrideUsed, tempFiles, tmp_path>>

Select_last_match ==
    /\ pc = "select"
    /\ IF Truthy(args.set_name)
       THEN LET matches == Matches(manifest, _normalized_set_name_for_match(args.set_name))
            IN  /\ UNCHANGED eligible
                /\ IF matches = <<>>
                   THEN Fail("name_not_found") /\ UNCHANGED chosen
                   ELSE chosen' = matches[Len(matches)] /\ Continue("validate")
       ELSE LET el == _eligible_entries(manifest, history, ThresholdDays, now)
            IN  /\ eligible' = el
                /\ IF el = <<>>
                   THEN Fail("no_eligible") /\ UNCHANGED chosen
                   ELSE /\ \E i \in 1..Len(el) :
                              /\ args.seed # None => i = RandBelow(args.seed, Len(el)) + 1
                              /\ chosen' = el[i]
                        /\ Continue("validate")
    /\ UNCHANGED <<manifest, history, now, calls, fileVars, manifestFile, args, tw, bs,
                   twitter_post_id, bluesky_uri, bluesky_url, ops, writes, runNo,
                   published, overrideUsed, tempFiles, tmp_path>>

\* lines 504-519: the entry named by --set-name, or a random eligible one
Select ==
    /\ pc = "select"
    /\ IF Truthy(args.set_name)
       THEN LET matches == Matches(manifest, _normalized_set_name_for_match(args.set_name))
            IN  /\ UNCHANGED eligible
                /\ IF matches = <<>>
                   THEN Fail("name_not_found") /\ UNCHANGED chosen
                   ELSE chosen' = matches[1] /\ Continue("validate")
       ELSE LET el == _eligible_entries(manifest, history, ThresholdDays, now)
            IN  /\ eligible' = el
                /\ IF el = <<>>
                   THEN Fail("no_eligible") /\ UNCHANGED chosen
                   ELSE /\ \E i \in 1..Len(el) :
                              /\ args.seed # None => i = RandBelow(args.seed, Len(el)) + 1
                              /\ chosen' = el[i]
                        /\ Continue("validate")
    /\ UNCHANGED <<manifest, history, now, calls, fileVars, manifestFile, args, tw, bs,
                   twitter_post_id, bluesky_uri, bluesky_url, ops, writes, runNo,
                   published, overrideUsed, tempFiles, tmp_path>>

\* lines 521-555: required fields, image file, publish date, Twitter text
Validate ==
    /\ pc = "validate"
    /\ \E image_exists \in BOOLEAN, render_ok \in BOOLEAN :
          IF ~HasRequiredFields(chosen) THEN Fail("incomplete_entry") /\ UNCHANGED ops
          ELSE IF ~image_exists THEN Fail("image_not_found") /\ UNCHANGED ops
          ELSE IF ~IsIsoDate(DatePublished(chosen)) THEN Fail("date_invalid") /\ UNCHANGED ops
          ELSE IF ~render_ok
               THEN Fail("template_render") /\ ops' = Append(ops, "render_twitter")
          ELSE /\ ops' = Append(ops, "render_twitter")
               /\ Continue(IF args.dry_run THEN "dry" ELSE "twitter")
    /\ UNCHANGED <<manifest, history, now, eligible, calls, fileVars, manifestFile, args,
                   chosen, tw, bs, twitter_post_id, bluesky_uri, bluesky_url, writes,
                   runNo, published, overrideUsed, tempFiles, tmp_path>>

DryRun_always_records ==
    /\ pc = "dry"
    /\ history' = Append(history, DryRecord)
    /\ histFile' = _save_json(history')
    /\ writes' = writes + 1
    /\ Finish(0)
    /\ UNCHANGED <<manifest, now, eligible, calls, tmpFile, histBefore, manifestFile, args,
                   chosen, tw, bs, twitter_post_id, bluesky_uri, bluesky_url, ops, runNo,
                   published, overrideUsed, tempFiles, tmp_path>>

DryRun_posts_first ==
    /\ pc = "dry"
    /\ IF args.record_dry_run
       THEN /\ history' = Append(history, DryRecord)
            /\ histFile' = _save_json(history')
            /\ writes' = writes + 1
       ELSE UNCHANGED <<history, histFile, writes>>
    /\ ops' = Append(ops, "twitter_upload")
    /\ Finish(0)
    /\ UNCHANGED <<manifest, now, eligible, calls, tmpFile, histBefore, manifestFile, args,
                   chosen, tw, bs, twitter_post_id, bluesky_uri, bluesky_url, runNo,
                   published, overrideUsed, tempFiles, tmp_path>>

\* lines 557-572
DryRun ==
    /\ pc = "dry"
    /\ IF args.record_dry_run
       THEN /\ history' = Append(history, DryRecord)
            /\ histFile' = _save_json(history')
            /\ writes' = writes + 1
       ELSE UNCHANGED <<history, histFile, writes>>
    /\ Finish(0)
    /\ UNCHANGED <<manifest, now, eligible, calls, tmpFile, histBefore, manifestFile, args,
                   chosen, tw, bs, twitter_post_id, bluesky_uri, bluesky_url, ops, runNo,
                   published, overrideUsed, tempFiles, tmp_path>>

\* what _load_auth / _load_bluesky_auth and the client set-up meet
AuthCases == {"not_found", "malformed", "missing_key", "ok"}

\* lines 584-593: the Twitter credentials and clients
TwAuth ==
    /\ pc = "twitter"
    /\ IF args.platform \notin {"twitter", "both"}
       THEN Continue("bluesky") /\ UNCHANGED tw
       ELSE \E res \in AuthCases \cup {"no_tweepy"} :
               CASE res = "not_found" -> tw' = "Failed" /\ Fail("twitter_auth_not_found")
                 [] res = "malformed" -> tw' = "Failed" /\ Fail("twitter_auth_malformed")
                 [] res = "missing_key" -> tw' = "Failed" /\ Fail("twitter_auth_missing_key")
                 [] res = "no_tweepy" -> tw' = "Failed" /\ Fail("twitter_init")
                 [] res = "ok" -> tw' = "Authenticated" /\ Continue("tw_upload")
    /\ UNCHANGED <<manifest, history, now, eligible, calls, fileVars, manifestFile, args,
                   chosen, bs, twitter_post_id, bluesky_uri, bluesky_url, ops, writes,
                   runNo, published, overrideUsed, tempFiles, tmp_path>>

\* lines 595-606: prepare the image, upload it, and the finally clause
TwUpload ==
    /\ pc = "tw_upload"
    /\ \E case \in PrepareCases, upload_ok \in BOOLEAN :
          LET r == _prepare_image_for_upload(case, "twitter")
          IN  /\ tempFiles' = Unlink(tempFiles \cup r.left, r.tmp_path)
              /\ tmp_path' = r.tmp_path
              /\ IF r.raised
                 THEN tw' = "Failed" /\ Fail("twitter_prepare") /\ UNCHANGED ops
                 ELSE IF ~upload_ok
                      THEN /\ tw' = "Failed"
                           /\ Fail("twitter_upload")
                           /\ ops' = Append(ops, "twitter_upload")
                 ELSE /\ tw' = "MediaPrepared"
                      /\ ops' = Append(ops, "twitter_upload")
                      /\ Continue("tw_create")
    /\ UNCHANGED <<manifest, history, now, eligible, calls, fileVars, manifestFile, args,
                   chosen, bs, twitter_post_id, bluesky_uri, bluesky_url, writes, runNo,
                   published, overrideUsed>>

Publication == [key |-> SetUrl(chosen), run |-> runNo, at |-> now]

\* lines 608-613: create the tweet
TwCreate ==
    /\ pc = "tw_create"
    /\ ops' = Append(ops, "twitter_create")
    /\ \E res \in {"raises", "id", "no_id"} :
          IF res = "raises"
          THEN tw' = "Failed" /\ Fail("twitter_create") /\ UNCHANGED <<twitter_post_id, published>>
          ELSE /\ tw' = "Posted"
               /\ twitter_post_id' = (IF res = "id" THEN "tweet" ELSE None)
               /\ published' = published \cup {Publication}
               /\ Continue("bluesky")
    /\ UNCHANGED <<manifest, history, now, eligible, calls, fileVars, manifestFile, args,
                   chosen, bs, bluesky_uri, bluesky_url, writes, runNo, overrideUsed,
                   tempFiles, tmp_path>>

\* lines 615-629: the Bluesky credentials file, text, credentials and session
BsAuth ==
    /\ pc = "bluesky"
    /\ IF args.platform \notin {"bluesky", "both"}
       THEN Continue("record") /\ UNCHANGED <<bs, ops, tmp_path>>
       ELSE \E res \in AuthCases \cup {"render_fails", "login_fails"} :
               CASE res = "not_found" ->
                       /\ bs' = "Failed"
                       /\ Fail("bluesky_auth_not_found")
                       /\ UNCHANGED <<ops, tmp_path>>
                 [] res = "render_fails" ->
                       /\ bs' = "Failed"
                       /\ Fail("bluesky_template_render")
                       /\ tmp_path' = None
                       /\ ops' = Append(ops, "render_bluesky")
                 [] res = "malformed" ->
                       /\ bs' = "Failed"
                       /\ Fail("bluesky_auth_malformed")
                       /\ tmp_path' = None
                       /\ ops' = Append(ops, "render_bluesky")
                 [] res = "missing_key" ->
                       /\ bs' = "Failed"
                       /\ Fail("bluesky_auth_missing_key")
                       /\ tmp_path' = None
                       /\ ops' = Append(ops, "render_bluesky")
                 [] res = "login_fails" ->
                       /\ bs' = "Failed"
                       /\ Fail("bluesky_login")
                       /\ tmp_path' = None
                       /\ ops' = ops \o <<"render_bluesky", "bluesky_login">>
                 [] res = "ok" ->
                       /\ bs' = "Authenticated"
                       /\ ops' = ops \o <<"render_bluesky", "bluesky_login">>
                       /\ tmp_path' = None
                       /\ Continue("bs_upload")
    /\ UNCHANGED <<manifest, history, now, eligible, calls, fileVars, manifestFile, args,
                   chosen, tw, twitter_post_id, bluesky_uri, bluesky_url, writes, runNo,
                   published, overrideUsed, tempFiles>>

\* lines 630-631: prepare the image and upload the blob; the finally clause
\* (lines 649-651) runs when either raises
BsUpload ==
    /\ pc = "bs_upload"
    /\ \E case \in PrepareCases, upload_ok \in BOOLEAN :
          LET r == _prepare_image_for_upload(case, "bluesky")
          IN  IF r.raised
              THEN /\ bs' = "Failed"
                   /\ Fail("bluesky_prepare")
                   /\ tempFiles' = Unlink(tempFiles \cup r.left, tmp_path)
                   /\ UNCHANGED <<ops, tmp_path>>
              ELSE IF ~upload_ok
                   THEN /\ bs' = "Failed"
                        /\ Fail("bluesky_upload")
                        /\ ops' = Append(ops, "bluesky_upload")
                        /\ tempFiles' = Unlink(tempFiles \cup r.left, r.tmp_path)
                        /\ tmp_path' = r.tmp_path
              ELSE /\ bs' = "MediaPrepared"
                   /\ ops' = Append(ops, "bluesky_upload")
                   /\ tempFiles' = tempFiles \cup r.left
                   /\ tmp_path' = r.tmp_path
                   /\ Continue("bs_create")
    /\ UNCHANGED <<manifest, history, now, eligible, calls, fileVars, manifestFile, args,
                   chosen, tw, twitter_post_id, bluesky_uri, bluesky_url, writes, runNo,
                   published, overrideUsed>>

\* lines 632-651: create the post, resolve its URL, and the finally clause
BsCreate ==
    /\ pc = "bs_create"
    /\ ops' = Append(ops, "bluesky_create")
    /\ tempFiles' = Unlink(tempFiles, tmp_path)
    /\ \E res \in {"raises", "uri", "no_uri"} :
          IF res = "raises"
          THEN /\ bs' = "Failed"
               /\ Fail("bluesky_create")
               /\ UNCHANGED <<bluesky_uri, bluesky_url, published>>
          ELSE /\ bs' = "Posted"
               /\ bluesky_uri' = (IF res = "no_uri" THEN None ELSE "at_uri")
               /\ bluesky_url' = (IF res = "no_uri" THEN None
                                  ELSE _bluesky_web_url_from_at_uri("at_uri"))
               /\ published' = published \cup {Publication}
               /\ Continue("record")
    /\ UNCHANGED <<manifest, history, now, eligible, calls, fileVars, manifestFile, args,
                   chosen, tw, twitter_post_id, writes, runNo, overrideUsed, tmp_path>>

Record_drops_identifiers ==
    /\ pc = "record"
    /\ history' = Append(history, [PostRecord EXCEPT !.twitter_post_id = None,
                                                     !.bluesky_uri = None])
    /\ histFile' = _save_json(history')
    /\ writes' = writes + 1
    /\ Finish(0)
    /\ UNCHANGED <<manifest, now, eligible, calls, tmpFile, histBefore, manifestFile, args,
                   chosen, tw, bs, twitter_post_id, bluesky_uri, bluesky_url, ops, runNo,
                   published, overrideUsed, tempFiles, tmp_path>>

\* lines 653-672: append the record, save the history, exit 0
Record ==
    /\ pc = "record"
    /\ history' = Append(history, PostRecord)
    /\ histFile' = _save_json(history')
    /\ writes' = writes + 1
    /\ Finish(0)
    /\ UNCHANGED <<manifest, now, eligible, calls, tmpFile, histBefore, manifestFile, args,
                   chosen, tw, bs, twitter_post_id, bluesky_uri, bluesky_url, ops, runNo,
                   published, overrideUsed, tempFiles, tmp_path>>

RunNext ==
    \/ RunStart
    \/ Select
    \/ Validate
    \/ DryRun
    \/ TwAuth
    \/ TwUpload
    \/ TwCreate
    \/ BsAuth
    \/ BsUpload
    \/ BsCreate
    \/ Record

SpecRun == RunInit /\ [][RunNext]_vars

----------------------------------------------------------------------------
(* Properties of main *)

Ended == pc = "exited" /\ runNo > 0

\* the records a history file holds
RecordsIn(f) == IF f.exists /\ f.kind = "list" THEN f.items ELSE <<>>

Last(q) == q[Len(q)]

\* C1: in a non-dry run with both platforms enabled, a failure of the first
\* platform's adapter does not prevent the second adapter from being run to
\* a terminal state (Posted or Failed).
C1_SecondAdapterStillRuns ==
    (Ended /\ ~args.dry_run /\ args.platform = "both" /\ tw = "Failed")
        => bs \in {"Posted", "Failed"}

\* C2: a non-dry run in which one enabled platform reaches Posted and another
\* fails still persists exactly one history record, with the identifier of
\* the platform that succeeded and a null identifier for the one that failed,
\* and exits with the failure class of the failed platform.
C2_PartialSuccessIsRecorded ==
    (/\ Ended
     /\ ~args.dry_run
     /\ \/ tw = "Posted" /\ bs = "Failed"
        \/ tw = "Failed" /\ bs = "Posted")
        => /\ writes = 1
           /\ histFile.exists /\ histFile.kind = "list"
           /\ histFile.items = Append(RecordsIn(histBefore), Last(histFile.items))
           /\ Last(histFile.items).set_url = SetUrl(chosen)
           /\ tw = "Failed" => Last(histFile.items).twitter_post_id = None
           /\ bs = "Failed" => Last(histFile.items).bluesky_uri = None
           /\ (tw = "Posted" /\ twitter_post_id # None)
                 => Last(histFile.items).twitter_post_id = twitter_post_id
           /\ (bs = "Posted" /\ bluesky_uri # None)
                 => Last(histFile.items).bluesky_uri = bluesky_uri
           /\ exitCode \in (IF tw = "Failed" THEN {6, 7, 8} ELSE {10, 11})

DaysApart(p, q) ==
    IF DateOf(p.at) >= DateOf(q.at) THEN DateOf(p.at) - DateOf(q.at)
    ELSE DateOf(q.at) - DateOf(p.at)

\* C3: over runs that share the manifest and the history file and do not use
\* --set-name, no item is published by two runs on dates fewer than
\* threshold_days calendar days apart.
C3_NoRepeatWithinThreshold ==
    ~overrideUsed =>
        \A p, q \in published :
            (p.key = q.key /\ p.run # q.run) => DaysApart(p, q) >= ThresholdDays

\* C4: a run appends at most one record and writes the history file at most
\* once; a real post that completes and a dry run with --record-dry-run
\* append exactly one record, a dry run without --record-dry-run none.
C4_AtMostOneRecordPerRun ==
    LET before == RecordsIn(histBefore)
    IN  /\ writes \in {0, 1}
        /\ writes = 0 => histFile = histBefore
        /\ writes = 1 =>
              /\ histFile = ListFile(history)
              /\ Len(history) = Len(before) + 1
              /\ SubSeq(history, 1, Len(before)) = before
        /\ (Ended /\ exitCode = 0 /\ (~args.dry_run \/ args.record_dry_run))
              => /\ writes = 1
                 /\ Last(history).set_url = SetUrl(chosen)
        /\ (Ended /\ args.dry_run /\ ~args.record_dry_run) => writes = 0

\* the second run of the two completes a real post and appends to the first's record
C4_Witness ==
    /\ Ended
    /\ runNo = 2
    /\ ~args.dry_run
    /\ exitCode = 0
    /\ writes = 1
    /\ Len(RecordsIn(histBefore)) = 1
    /\ Len(RecordsIn(histFile)) = 2

\* C10 as stated: after a run the content of the history file is the content
\* before the run, or that content with exactly one record appended.
C10_FileAppendOnly ==
    runNo > 0 =>
        \/ histFile = histBefore
        \/ /\ histBefore.kind = "list"
           /\ histFile = ListFile(Append(RecordsIn(histBefore), Last(RecordsIn(histFile))))

\* C10 as amended: after a run the history file is untouched, or holds the
\* records the file held before the run (none when it was absent or held a
\* JSON value that is not a list) with exactly one record appended at the end.
C10_RecordsAppendOnly ==
    runNo > 0 =>
        \/ histFile = histBefore
        \/ histFile = ListFile(Append(RecordsIn(histBefore), Last(RecordsIn(histFile))))

C10_Witness ==
    /\ Ended
    /\ Len(RecordsIn(histBefore)) = 1
    /\ Len(RecordsIn(histFile)) = 2
    /\ RecordsIn(histFile)[1] = RecordsIn(histBefore)[1]
    /\ args.dry_run

TempFilesOf(platform) == tempFiles \cap {TmpName(platform), JpgName(platform)}

\* C11: any temporary file produced during media preparation is deleted on
\* every exit path of the adapter invocation: once a platform's adapter has
\* terminated (Posted or Failed) no temporary file created by
\* _prepare_image_for_upload for that invocation still exists.
C11_TempFilesDeleted ==
    /\ tw \in {"Posted", "Failed"} => TempFilesOf("twitter") = {}
    /\ bs \in {"Posted", "Failed"} => TempFilesOf("bluesky") = {}

\* the network calls and sessions of the platform adapters
AdapterOps ==
    {"twitter_upload", "twitter_create", "bluesky_login", "bluesky_upload", "bluesky_create"}

NoAdapterOperation ==
    /\ \A i \in 1..Len(ops) : ops[i] \notin AdapterOps
    /\ tw = "NotRun"
    /\ bs \notin {"Authenticated", "MediaPrepared", "Posted"}

\* the failures of the input, selection, entry-validation, image-lookup and
\* template-render categories
PreparationFailures ==
    {"manifest_not_found", "manifest_not_list", "no_eligible", "name_not_found",
     "incomplete_entry", "image_not_found", "template_render", "bluesky_template_render"}

\* C12: a failure in the input, selection, entry-validation, image-lookup or
\* template-render category ends the run, leaves the history file unchanged,
\* and no platform adapter operation is performed in that run.
C12_PreparationFailureIsFatal ==
    (Ended /\ failure \in PreparationFailures)
        => /\ exitCode # 0
           /\ writes = 0
           /\ histFile = histBefore
           /\ NoAdapterOperation

\* dict.get of a key the record lacks gives None
ReadsAsNull(v) == v \in {None, NoKey}

\* C13: a dry run never invokes a platform adapter operation (authenticate,
\* prepare media, upload, create post); unless it failed before the posting
\* stage it exits with status 0; it appends a history record if and only if
\* --record-dry-run is set, and that record carries the chosen entry's
\* filename, set name and set URL, the run time, and no identifier of any
\* platform (a null twitter_post_id, and Bluesky fields that read as null).
C13_DryRunPostsNothing ==
    args.dry_run =>
        /\ NoAdapterOperation
        /\ bs = "NotRun"
        /\ tempFiles = {}
        /\ Ended =>
              /\ failure \in {"none", "date_invalid"}
                                \cup (PreparationFailures \ {"bluesky_template_render"})
              /\ failure = "none" <=> exitCode = 0
              /\ (exitCode = 0 /\ ~args.record_dry_run) => histFile = histBefore
              /\ exitCode # 0 => histFile = histBefore
              /\ (exitCode = 0 /\ args.record_dry_run) =>
                    LET rec == Last(RecordsIn(histFile))
                    IN  /\ histFile = ListFile(Append(RecordsIn(histBefore), rec))
                        /\ rec.filename = Filename(chosen)
                        /\ rec.set_name = SetName(chosen)
                        /\ rec.set_url = SetUrl(chosen)
                        /\ rec.posted_at = now
                        /\ rec.twitter_post_id = None
                        /\ ReadsAsNull(rec.bluesky_uri)
                        /\ ReadsAsNull(rec.bluesky_url)

\* a recorded dry run of the first run: the history file now holds one record
C13_Witness ==
    /\ Ended
    /\ runNo = 1
    /\ args.dry_run
    /\ args.record_dry_run
    /\ exitCode = 0
    /\ ops = <<"render_twitter">>
    /\ Len(RecordsIn(histFile)) = 1

Failures == DOMAIN ExitCodes

\* the failure classes the exit status is said to tell apart
ListedClass(f) ==
    CASE f = "manifest_not_found" -> "manifest-not-found"
      [] f = "manifest_not_list" -> "malformed-manifest"
      [] f \in {"no_eligible", "name_not_found"} -> "no-eligible-entries/name-not-found"
      [] f = "incomplete_entry" -> "incomplete-entry"
      [] f = "image_not_found" -> "image-not-found"
      [] f \in {"twitter_auth_not_found", "twitter_auth_malformed",
                "twitter_auth_missing_key", "twitter_init"} -> "twitter auth"
      [] f \in {"twitter_prepare", "twitter_upload"} -> "twitter upload"
      [] f = "twitter_create" -> "twitter create"
      [] f \in {"bluesky_auth_not_found", "bluesky_auth_malformed",
                "bluesky_auth_missing_key", "bluesky_login"} -> "bluesky auth"
      [] f \in {"bluesky_prepare", "bluesky_upload"} -> "bluesky upload"
      [] f = "bluesky_create" -> "bluesky create"
      [] f \in {"template_render", "bluesky_template_render"} -> "template-render"
      [] OTHER -> "not listed"

StatusGroup(f) ==
    CASE f \in {"manifest_not_found", "manifest_not_list"} -> "manifest"
      [] f \in {"bluesky_template_render", "bluesky_auth_malformed",
                "bluesky_auth_missing_key", "bluesky_login", "bluesky_prepare",
                "bluesky_upload", "bluesky_create"} -> "bluesky, credentials file found"
      [] f = "bluesky_auth_not_found" -> "bluesky credentials file not found"
      [] f = "template_render" -> "twitter template-render"
      [] OTHER -> ListedClass(f)

Enabled(platform) == args.platform \in {platform, "both"}

\* C15 as stated: whenever a non-dry run exits with 0, every enabled platform
\* reached Posted and the persisted history record carries a non-null post
\* identifier for every enabled platform.
C15_ZeroMeansIdentifiers ==
    (Ended /\ ~args.dry_run /\ exitCode = 0) =>
        /\ writes = 1
        /\ Enabled("twitter") =>
              tw = "Posted" /\ Last(RecordsIn(histFile)).twitter_post_id # None
        /\ Enabled("bluesky") =>
              bs = "Posted" /\ Last(RecordsIn(histFile)).bluesky_uri # None

\* C15 as amended: whenever a non-dry run exits with 0, every enabled platform
\* reached Posted (its post was created) and no other platform was run, and the
\* history record of the run is persisted with, for every platform, the
\* identifier the platform returned: null when the platform was not enabled or
\* its response carried no identifier.
C15_ZeroMeansAllPosted ==
    (Ended /\ ~args.dry_run /\ exitCode = 0) =>
        LET rec == Last(RecordsIn(histFile))
        IN  /\ failure = "none"
            /\ writes = 1
            /\ histFile = ListFile(Append(RecordsIn(histBefore), rec))
            /\ rec.set_url = SetUrl(chosen)
            /\ rec.posted_at = now
            /\ tw = (IF Enabled("twitter") THEN "Posted" ELSE "NotRun")
            /\ bs = (IF Enabled("bluesky") THEN "Posted" ELSE "NotRun")
            /\ Publication \in published
            /\ rec.twitter_post_id = twitter_post_id
            /\ rec.bluesky_uri = bluesky_uri
            /\ ~Enabled("twitter") => rec.twitter_post_id = None
            /\ ~Enabled("bluesky") => rec.bluesky_uri = None
            /\ Enabled("twitter") =>
                  \E i \in 1..Len(ops) : ops[i] = "twitter_create"
            /\ Enabled("bluesky") =>
                  \E i \in 1..Len(ops) : ops[i] = "bluesky_create"

\* both platforms posted and returned their identifiers
C15_Witness ==
    /\ Ended
    /\ ~args.dry_run
    /\ exitCode = 0
    /\ args.platform = "both"
    /\ tw = "Posted"
    /\ bs = "Posted"
    /\ Last(RecordsIn(histFile)).twitter_post_id = "tweet"
    /\ Last(RecordsIn(histFile)).bluesky_uri = "at_uri"

\* the requests that upload media or create a post
UploadOrCreate == {"twitter_upload", "twitter_create", "bluesky_upload", "bluesky_create"}

\* C16: a credentials file that lacks a required key for an enabled platform
\* causes a fatal auth error before any network call of the run: in a run
\* that meets such a file no upload or post-creation request is sent to any
\* platform.
C16_MissingKeyBeforeAnyRequest ==
    failure \in {"twitter_auth_missing_key", "bluesky_auth_missing_key"} =>
        /\ Ended
        /\ exitCode # 0
        /\ \A i \in 1..Len(ops) : ops[i] \notin UploadOrCreate

----------------------------------------------------------------------------
(* The selection step of main on its own: two invocations on one manifest *)

S1 == [filename |-> <<"f">>, set_name |-> <<"A", "&amp;">>, set_url |-> U,
       date_published |-> <<"d">>]
S2 == [filename |-> <<"g">>, set_name |-> <<SP, "a", "&">>, set_url |-> V,
       date_published |-> <<"d">>]
S3 == [filename |-> <<"h">>, set_name |-> <<"lsquo", "B">>, set_url |-> <<"w">>,
       date_published |-> <<"d">>]

SelEntryPool == {S1, S2, S3}

Seeds == {None, "1", "2"}

\* --set-name values: one that two entries match, one that one matches, one that none does
SelNames == {<<"a", "&amp;", SP>>, <<"backtick", "b">>, <<"x">>}

SelArgsPool ==
    { [NoArgs EXCEPT !.seed = sd] : sd \in Seeds }
    \cup { [NoArgs EXCEPT !.set_name = n] : n \in SelNames }

RecentlyPosted(url) == Stamped(<<url, N>>, <<At(NewInstant, 0), NoTs>>)

SelHistories ==
    { <<>>, <<RecentlyPosted(U)>>, <<RecentlyPosted(V)>>,
      <<Stamped(<<U, N>>, <<At(OldInstant, 0), NoTs>>)>>,
      <<RecentlyPosted(U), RecentlyPosted(V)>> }

SelInit ==
    /\ manifest \in SeqsUpTo(SelEntryPool, MaxManifest)
    /\ manifestFile = ListFile(manifest)
    /\ history \in SelHistories
    /\ args \in SelArgsPool
    /\ now \in NowPool
    /\ pc = "select"
    /\ runNo = 1
    /\ overrideUsed = Truthy(args.set_name)
    /\ eligible = <<>>
    /\ calls = {}
    /\ histFile = Absent
    /\ tmpFile = Absent
    /\ histBefore = Absent
    /\ chosen = NoEntry
    /\ exitCode = -1
    /\ tw = "NotRun"
    /\ bs = "NotRun"
    /\ twitter_post_id = None
    /\ bluesky_uri = None
    /\ bluesky_url = None
    /\ ops = <<>>
    /\ writes = 0
    /\ published = {}
    /\ failure = "none"
    /\ tempFiles = {}
    /\ tmp_path = None

\* the outcome of the selection just made
Selection ==
    [seed |-> args.seed, set_name |-> args.set_name, history |-> history,
     eligible |-> eligible, chosen |-> chosen, pc |-> pc]

\* lines 472-502 of the next invocation: same manifest and --set-name, any
\* seed, any history; the selection of the first invocation is kept in calls
SelAgain ==
    /\ pc \in {"validate", "exited"}
    /\ calls = {}
    /\ calls' = {Selection}
    /\ runNo' = runNo + 1
    /\ \E h \in SelHistories, sd \in Seeds :
          /\ history' = h
          /\ args' = [args EXCEPT !.seed = IF Truthy(args.set_name) THEN None ELSE sd]
    /\ pc' = "select"
    /\ chosen' = NoEntry
    /\ eligible' = <<>>
    /\ exitCode' = -1
    /\ failure' = "none"
    /\ UNCHANGED <<manifest, now, fileVars, manifestFile, tw, bs, twitter_post_id,
                   bluesky_uri, bluesky_url, ops, writes, published, overrideUsed,
                   tempFiles, tmp_path>>

SelNext == Select \/ SelAgain

SpecSel == SelInit /\ [][SelNext]_vars

MatchingPositions ==
    {i \in 1..Len(manifest) :
        _normalized_set_name_for_match(manifest[i].set_name)
            = _normalized_set_name_for_match(args.set_name)}

\* C18: with --set-name the chosen entry is the first manifest entry, in
\* manifest order, whose set_name equals the requested name after trimming,
\* HTML-entity unescaping, quote normalization and case folding; the choice
\* does not depend on the history or the threshold; several matches resolve
\* to the first one without failing; zero matches ends the run with the
\* name-not-found failure and no history write.
C18_OverrideTakesFirstMatch ==
    (Truthy(args.set_name) /\ pc # "select") =>
        /\ MatchingPositions = {} =>
              /\ pc = "exited"
              /\ failure = "name_not_found"
              /\ exitCode = ExitStatus("name_not_found")
              /\ writes = 0
              /\ histFile = histBefore
        /\ MatchingPositions # {} =>
              /\ pc = "validate"
              /\ failure = "none"
              /\ \E i \in MatchingPositions :
                    /\ chosen = manifest[i]
                    /\ \A j \in MatchingPositions : i <= j
        /\ \A c \in calls : c.set_name = args.set_name => c.chosen = chosen

\* two entries match, their names differ as written, the first is chosen while
\* its set was posted within the threshold
C18_Witness ==
    /\ pc = "validate"
    /\ Truthy(args.set_name)
    /\ Cardinality(MatchingPositions) = 2
    /\ manifest[1].set_name # manifest[2].set_name
    /\ manifest[1].set_name # args.set_name
    /\ chosen = manifest[1]
    /\ \E i \in 1..Len(history) : HistoryKey(history[i]) = EntryKey(chosen)
    /\ \E c \in calls : c.history # history /\ c.chosen = chosen

----------------------------------------------------------------------------
(* _fit_tags *)

MaxTagCount == 4    \* most tokens in a tag string
MaxBase == 2        \* longest base text
MaxBudget == 12     \* largest max_len

NL == "\n"

\* the first whitespace-free run of a string that starts with one
RECURSIVE FirstWord(_)
FirstWord(s) ==
    IF s = <<>> \/ Head(s) = SP THEN <<>> ELSE <<Head(s)>> \o FirstWord(Tail(s))

\* str.split()
RECURSIVE Split(_)
Split(s) ==
    LET t == LStrip(s)
    IN  IF t = <<>> THEN <<>>
        ELSE <<FirstWord(t)>> \o Split(SubSeq(t, Len(FirstWord(t)) + 1, Len(t)))

\* " ".join(words)
RECURSIVE Join(_)
Join(words) ==
    IF words = <<>> THEN <<>>
    ELSE IF Len(words) = 1 THEN words[1]
    ELSE words[1] \o <<SP>> \o Join(Tail(words))

\* t.startswith("#")
StartsWithHash(t) == t # <<>> /\ t[1] = "#"

\* f"{base}\n\n{tags}"
Candidate(base, tags) == base \o <<NL, NL>> \o tags

RECURSIVE KeepTags_skips(_, _, _, _)
KeepTags_skips(base, tag_list, kept, max_len) ==
    IF tag_list = <<>> THEN kept
    ELSE IF Len(Candidate(base, Join(Append(kept, Head(tag_list))))) <= max_len
         THEN KeepTags_skips(base, Tail(tag_list), Append(kept, Head(tag_list)), max_len)
         ELSE KeepTags_skips(base, Tail(tag_list), kept, max_len)

\* the loop over tag_list (lines 90-96)
RECURSIVE KeepTags(_, _, _, _)
KeepTags(base, tag_list, kept, max_len) ==
    IF tag_list = <<>> THEN kept
    ELSE IF Len(Candidate(base, Join(Append(kept, Head(tag_list))))) <= max_len
         THEN KeepTags(base, Tail(tag_list), Append(kept, Head(tag_list)), max_len)
         ELSE kept

_fit_tags(base, tags, max_len) ==
    LET stripped == Strip(Or(tags, EmptyStr))
    IN  IF ~Truthy(stripped) THEN EmptyStr
        ELSE IF Len(Candidate(base, stripped)) <= max_len THEN stripped
        ELSE Join(KeepTags(base, SelectSeq(Split(stripped), StartsWithHash), <<>>, max_len))

\* tokens of a tag string: two hashtags of different lengths and a word that is no hashtag
Tokens == {<<"#", "a">>, <<"#", "b", "b">>, <<"c">>}

\* the tokens separated by sep
RECURSIVE Spaced(_, _)
Spaced(words, sep) ==
    IF words = <<>> THEN <<>>
    ELSE IF Len(words) = 1 THEN words[1]
    ELSE words[1] \o sep \o Spaced(Tail(words), sep)

TagStrings ==
    { pad \o Spaced(ws, sep) :
        ws \in SeqsUpTo(Tokens, MaxTagCount), sep \in {<<SP>>, <<SP, SP>>}, pad \in {<<>>, <<SP>>} }
    \cup SeqsUpTo({"#", "a", SP}, 3)

BaseTexts == { [i \in 1..n |-> "x"] : n \in 0..MaxBase }

FitInit ==
    /\ calls = {}
    /\ pc = "fit"
    /\ manifest = <<>>
    /\ history = <<>>
    /\ now = At(0, 0)
    /\ eligible = <<>>
    /\ histFile = Absent
    /\ tmpFile = Absent
    /\ histBefore = Absent
    /\ NoRun

FitCall ==
    /\ pc = "fit"
    /\ \E base \in BaseTexts, tags \in TagStrings, max_len \in 0..MaxBudget :
          calls' = {[base |-> base, tags |-> tags, max_len |-> max_len,
                     result |-> _fit_tags(base, tags, max_len)]}
    /\ pc' = "returned"
    /\ UNCHANGED <<manifest, history, now, eligible, fileVars, runVars>>

FitNext == FitCall

SpecFit == FitInit /\ [][FitNext]_vars

\* the hashtags of a tag string, in their order
Hashtags(tags) == SelectSeq(Split(Strip(tags)), StartsWithHash)

\* base, two newlines and the first k hashtags joined by single spaces fit in max_len
PrefixFits(c, k) ==
    Len(c.base) + 2 + Len(Join(SubSeq(Hashtags(c.tags), 1, k))) <= c.max_len

FullDoesNotFit(c) ==
    /\ Strip(c.tags) # <<>>
    /\ Len(c.base) + 2 + Len(Strip(c.tags)) > c.max_len

\* C19 as stated: when the full tag string does not fit, _fit_tags returns
\* the longest prefix of the hashtags (in original order, each whole, joined
\* by single spaces) such that base + two newlines + the returned tags has
\* length <= max_len; no hashtag after a dropped one is included and none is
\* split.
C19_LongestFittingPrefix ==
    \A c \in calls :
        FullDoesNotFit(c) =>
            \E k \in 0..Len(Hashtags(c.tags)) :
                /\ c.result = Join(SubSeq(Hashtags(c.tags), 1, k))
                /\ PrefixFits(c, k)
                /\ \A j \in (k + 1)..Len(Hashtags(c.tags)) : ~PrefixFits(c, j)

\* C19 as amended: when the full tag string does not fit, _fit_tags returns
\* the longest prefix of the hashtags (in original order, each whole, joined
\* by single spaces) that fits with base and two newlines in max_len, and the
\* empty string when not even the first hashtag fits; the empty result is
\* returned also when base and the two newlines alone exceed max_len, so the
\* length bound holds of every non-empty result only.
C19_GreedyPrefix ==
    \A c \in calls :
        FullDoesNotFit(c) =>
            \E k \in 0..Len(Hashtags(c.tags)) :
                /\ c.result = Join(SubSeq(Hashtags(c.tags), 1, k))
                /\ k > 0 => PrefixFits(c, k)
                /\ \A j \in (k + 1)..Len(Hashtags(c.tags)) : ~PrefixFits(c, j)

\* room for two of four hashtags; the fourth would fit in place of the third
C19_Witness ==
    \E c \in calls :
        LET h == Hashtags(c.tags)
        IN  /\ Len(h) = 4
            /\ c.result = Join(SubSeq(h, 1, 2))
            /\ Len(c.base) + 2 + Len(Join(<<h[1], h[2], h[4]>>)) <= c.max_len
            /\ Len(c.base) > 0

----------------------------------------------------------------------------
(* _render_post_text and the text handed to each platform *)

TwitterMaxLen == 280
BlueskyMaxLen == 300

MaxRendered == 302    \* longest template output, before the surrounding whitespace

\* s[:n]
Slice(s, n) == IF Len(s) > n THEN SubSeq(s, 1, n) ELSE s

_render_post_text_keeps_one_more(rendered, max_len) ==
    IF Len(Strip(rendered)) > max_len THEN Slice(Strip(rendered), max_len + 1)
    ELSE Strip(rendered)

\* lines 189-192, given what template.render returned
_render_post_text(rendered, max_len) ==
    IF Len(Strip(rendered)) > max_len THEN Slice(Strip(rendered), max_len)
    ELSE Strip(rendered)

\* the places that produce the text of a post, in both scripts
RenderSites == {"post/twitter", "post/bluesky", "tweet/twitter", "tweet/bluesky"}

\* the text a site hands to its platform, given what template.render returned
HandedText(site, rendered) ==
    CASE site = "post/twitter" -> _render_post_text(rendered, TwitterMaxLen)
      [] site = "post/bluesky" -> _render_post_text(rendered, BlueskyMaxLen)
      [] site = "tweet/twitter" -> _render_post_text(rendered, TwitterMaxLen)
      [] site = "tweet/bluesky" ->
            Slice(_render_post_text(rendered, TwitterMaxLen), BlueskyMaxLen)

\* template outputs: n characters that differ from their neighbours, with or
\* without whitespace around them
Letter(i) == IF i % 3 = 0 THEN "a" ELSE IF i % 3 = 1 THEN "b" ELSE "c"

RenderedTexts ==
    { lead \o [i \in 1..n |-> Letter(i)] \o trail :
        n \in 0..MaxRendered, lead \in {<<>>, <<SP>>}, trail \in {<<>>, <<SP>>} }

RenderInit ==
    /\ calls = {}
    /\ pc = "render"
    /\ manifest = <<>>
    /\ history = <<>>
    /\ now = At(0, 0)
    /\ eligible = <<>>
    /\ histFile = Absent
    /\ tmpFile = Absent
    /\ histBefore = Absent
    /\ NoRun

RenderCall ==
    /\ pc = "render"
    /\ \E site \in RenderSites, rendered \in RenderedTexts :
          calls' = {[site |-> site, rendered |-> rendered,
                     text |-> HandedText(site, rendered)]}
    /\ pc' = "returned"
    /\ UNCHANGED <<manifest, history, now, eligible, fileVars, runVars>>

RenderNext == RenderCall

SpecRender == RenderInit /\ [][RenderNext]_vars

\* the limit of the platform a site posts to
PlatformLimit(site) == IF site \in {"post/twitter", "tweet/twitter"} THEN 280 ELSE 300

\* the max_len a site renders with
RenderLimit(site) == IF site = "post/bluesky" THEN 300 ELSE 280

\* C20: the text handed to each platform never exceeds that platform's
\* max_len (280 for Twitter, 300 for Bluesky): when the rendered, stripped
\* template output is longer than max_len the renderer returns exactly its
\* first max_len characters, and otherwise returns it unchanged.
C20_TextWithinLimit ==
    \A c \in calls :
        LET stripped == Strip(c.rendered)
            max_len == RenderLimit(c.site)
        IN  /\ Len(c.text) <= PlatformLimit(c.site)
            /\ Len(stripped) > max_len =>
                  /\ Len(c.text) = max_len
                  /\ \A i \in 1..max_len : c.text[i] = stripped[i]
            /\ Len(stripped) <= max_len => c.text = stripped

\* a Bluesky text cut to 300 characters from a longer output with whitespace around it
C20_Witness ==
    \E c \in calls :
        /\ c.site = "post/bluesky"
        /\ Len(Strip(c.rendered)) > 300
        /\ c.rendered[1] = SP
        /\ Len(c.text) = 300

----------------------------------------------------------------------------
(* Order of rendering and posting in main *)

\* the entry of ops for the rendering of a platform's text
RenderOf(platform) == IF platform = "twitter" THEN "render_twitter" ELSE "render_bluesky"

\* the text of the platform was rendered before the i-th entry of ops
RenderedBefore(platform, i) == \E j \in 1..(i - 1) : ops[j] = RenderOf(platform)

\* C21: in every non-dry run the text for every enabled platform is rendered
\* before the first adapter operation of any platform is performed; no post
\* is created on one platform before the text of another enabled platform
\* has been rendered.
C21_RenderBeforeAdapters ==
    ~args.dry_run =>
        \A i \in 1..Len(ops) :
            ops[i] \in AdapterOps =>
                \A platform \in {"twitter", "bluesky"} :
                    Enabled(platform) => RenderedBefore(platform, i)

----------------------------------------------------------------------------
(* The eligible list and the required fields *)

\* filename, set_name, set_url and date_published are all non-empty once
\* the surrounding whitespace is removed
Complete(e) ==
    /\ Truthy(Strip(e.filename))
    /\ Truthy(Strip(e.set_name))
    /\ Truthy(Strip(e.set_url))
    /\ Truthy(Strip(e.date_published))

\* a run without --set-name that has ended
EndedWithoutOverride == Ended /\ ~Truthy(args.set_name)

\* C22 as stated: in a run without name override whose manifest contains at
\* least one eligible entry with non-empty filename, set_name, set_url and
\* date_published, the run never terminates with the incomplete-entry
\* failure (exit 4).
C22_EligibleEntriesAreComplete ==
    (EndedWithoutOverride /\ \E i \in 1..Len(eligible) : Complete(eligible[i]))
        => exitCode # 4

\* C22, amended: the eligibility engine guarantees only a non-empty identity
\* key; a run without name override ends with exit 4 exactly when the entry
\* chosen from the eligible list lacks one of the four fields, so it never
\* does when every eligible entry has all four.
C22_ExitFourIffChosenIncomplete ==
    EndedWithoutOverride =>
        /\ \A i \in 1..Len(eligible) : Truthy(EntryKey(eligible[i]))
        /\ eligible # <<>> => \E i \in 1..Len(eligible) : chosen = eligible[i]
        /\ exitCode = 4 <=> (eligible # <<>> /\ ~Complete(chosen))
        /\ (\A i \in 1..Len(eligible) : Complete(eligible[i])) => exitCode # 4

\* a run that chose the entry without filename although a complete entry was eligible
C22_Witness ==
    /\ EndedWithoutOverride
    /\ exitCode = 4
    /\ ~Truthy(Strip(chosen.filename))
    /\ \E i \in 1..Len(eligible) : Complete(eligible[i])

----------------------------------------------------------------------------
(* rin_throwback_post.py and rin_throwback_tweet.py on one history file *)

\* rin_throwback_tweet.py, line 219: ts of a history record
tweet_HistoryTs(h) == h.tweeted_at

\* rin_throwback_tweet.py, lines 217-227: one iteration of the loop over history
tweet_IndexStep(last, h) ==
    LET key == HistoryKey(h)
        ts == tweet_HistoryTs(h)
    IN  IF ~Truthy(key) \/ ts.kind = "none" THEN last
        ELSE IF ts.kind = "bad" THEN last
        ELSE IF key \notin DOMAIN last \/ ts.t > last[key].t
             THEN [k \in DOMAIN last \cup {key} |-> IF k = key THEN ts ELSE last[k]]
             ELSE last

RECURSIVE tweet_BuildLast(_, _)
tweet_BuildLast(hist, last) ==
    IF hist = <<>> THEN last
    ELSE tweet_BuildLast(Tail(hist), tweet_IndexStep(last, Head(hist)))

\* rin_throwback_tweet.py, lines 215-239; the loop over the manifest (lines
\* 229-238) is that of rin_throwback_post.py
tweet_eligible_entries(m, hist, threshold_days, now_) ==
    Keep(m, tweet_BuildLast(hist, EmptyIndex), threshold_days, now_)

\* the record rin_throwback_tweet.py appends (lines 483-489 and 563-570): it
\* has tweeted_at and no posted_at; its tweet_id, which neither script reads
\* back, is left out
TweetRecord(uri) ==
    [twitter_post_id |-> NoKey, bluesky_uri |-> uri, bluesky_url |-> NoKey,
     posted_at |-> NoTs, tweeted_at |-> now,
     filename |-> Filename(chosen), set_name |-> SetName(chosen), set_url |-> SetUrl(chosen)]

\* both scripts are given the same history file: by --history, or because
\* post_history.json is missing and rin_throwback_post.py falls back to
\* tweet_history.json (lines 481-484), the default of rin_throwback_tweet.py
SharedArgs ==
    { [NoArgs EXCEPT !.dry_run = d, !.record_dry_run = r] :
        d \in BOOLEAN, r \in BOOLEAN }

\* the failures of the template and of the platforms in rin_throwback_post.py
\* (lines 551-651), and in rin_throwback_tweet.py (lines 461-558), which
\* renders one text only
PostFailures ==
    DOMAIN ExitCodes \ {"manifest_not_found", "manifest_not_list", "name_not_found",
                        "no_eligible", "incomplete_entry", "image_not_found",
                        "date_invalid"}

TweetFailures == PostFailures \ {"bluesky_template_render"}

SharedInit ==
    /\ manifestFile \in ManifestFiles
    /\ histFile \in {Absent, OtherFile}
    /\ histBefore = histFile
    /\ tmpFile = Absent
    /\ manifest = <<>>
    /\ history = <<>>
    /\ now = At(0, 0)
    /\ eligible = <<>>
    /\ calls = {}
    /\ pc = "exited"
    /\ args = NoArgs
    /\ chosen = NoEntry
    /\ exitCode = -1
    /\ tw = "NotRun"
    /\ bs = "NotRun"
    /\ twitter_post_id = None
    /\ bluesky_uri = None
    /\ bluesky_url = None
    /\ ops = <<>>
    /\ writes = 0
    /\ runNo = 0
    /\ published = {}
    /\ overrideUsed = FALSE
    /\ failure = "none"
    /\ tempFiles = {}
    /\ tmp_path = None

\* the start of either main, up to the check of the required fields; el is
\* what the script's _eligible_entries returns and next where it goes on
StartOf(el, next) ==
    /\ runNo < MaxRuns
    /\ runNo' = runNo + 1
    /\ \E a \in SharedArgs, jump \in DayJumps :
          /\ args' = a
          /\ now' = At(now.t + jump * SlotsPerDay, 0)
    /\ histBefore' = histFile
    /\ writes' = 0
    /\ IF ~manifestFile.exists \/ manifestFile.kind # "list"
       THEN /\ Fail(IF manifestFile.exists THEN "manifest_not_list" ELSE "manifest_not_found")
            /\ manifest' = <<>>
            /\ history' = <<>>
            /\ eligible' = <<>>
            /\ chosen' = NoEntry
       ELSE /\ manifest' = manifestFile.items
            /\ history' = _load_history(histFile)
            /\ eligible' = el
            /\ IF el = <<>>
               THEN Fail("no_eligible") /\ chosen' = NoEntry
               ELSE \E i \in 1..Len(el) :
                       /\ chosen' = el[i]
                       /\ IF HasRequiredFields(el[i])
                          THEN /\ pc' = next
                               /\ exitCode' = -1
                               /\ failure' = "none"
                          ELSE Fail("incomplete_entry")
    /\ UNCHANGED <<calls, histFile, tmpFile, manifestFile, tw, bs, twitter_post_id,
                   bluesky_uri, bluesky_url, ops, published, overrideUsed, tempFiles,
                   tmp_path>>

\* the rest of either main: the image file, the publish date, a failure of
\* the template or (in a real run) of a platform, a dry run, or the posts
\* and the record; dry and posted are the records the script appends
FinishOf(classes, dry, posted) ==
    /\ \E image_exists \in BOOLEAN, ok \in BOOLEAN, class \in classes :
          IF ~image_exists
          THEN Fail("image_not_found") /\ UNCHANGED <<history, histFile, writes>>
          ELSE IF ~IsIsoDate(DatePublished(chosen))
          THEN Fail("date_invalid") /\ UNCHANGED <<history, histFile, writes>>
          ELSE IF ~ok /\ (~args.dry_run \/ class = "template_render")
          THEN Fail(class) /\ UNCHANGED <<history, histFile, writes>>
          ELSE /\ Finish(0)
               /\ IF args.dry_run /\ ~args.record_dry_run
                  THEN UNCHANGED <<history, histFile, writes>>
                  ELSE /\ history' = Append(history, IF args.dry_run THEN dry ELSE posted)
                       /\ histFile' = _save_json(history')
                       /\ writes' = writes + 1
    /\ UNCHANGED <<manifest, now, eligible, calls, tmpFile, histBefore, manifestFile, args,
                   chosen, tw, bs, twitter_post_id, bluesky_uri, bluesky_url, ops, runNo,
                   published, overrideUsed, tempFiles, tmp_path>>

\* rin_throwback_post.py, lines 472-532
PostStart ==
    /\ pc = "exited"
    /\ StartOf(_eligible_entries(manifestFile.items, _load_history(histFile),
                                 ThresholdDays, now'),
               "post_chosen")

\* rin_throwback_post.py, lines 534-672
PostFinish ==
    /\ pc = "post_chosen"
    /\ \E id \in {"tweet", None} :
          FinishOf(PostFailures, DryRecord, [PostRecord EXCEPT !.twitter_post_id = id])

\* rin_throwback_tweet.py, lines 410-450
TweetStart ==
    /\ pc = "exited"
    /\ StartOf(tweet_eligible_entries(manifestFile.items, _load_history(histFile),
                                      ThresholdDays, now'),
               "tweet_chosen")

\* rin_throwback_tweet.py, lines 452-575
TweetFinish ==
    /\ pc = "tweet_chosen"
    /\ \E uri \in {"at_uri", None} :
          FinishOf(TweetFailures, TweetRecord(NoKey), TweetRecord(uri))

SharedNext ==
    \/ PostStart
    \/ PostFinish
    \/ TweetStart
    \/ TweetFinish

SpecShared == SharedInit /\ [][SharedNext]_vars

\* a record rin_throwback_post.py appended, and one rin_throwback_tweet.py appended
ByPost(r) == r.posted_at.kind = "ok" /\ r.tweeted_at.kind = "none"
ByTweet(r) == r.tweeted_at.kind = "ok" /\ r.posted_at.kind = "none"

\* the item of record r is in the eligible list
Listed(r) == \E j \in 1..Len(eligible) : EntryKey(eligible[j]) = r.set_url

\* C23: a record appended to a history file by rin_throwback_post.py makes
\* the recorded item ineligible for threshold_days in a later run of
\* rin_throwback_tweet.py on the same file, and a record appended by
\* rin_throwback_tweet.py does the same for a later run of
\* rin_throwback_post.py.
C23_ScriptsShareHistory ==
    /\ pc = "tweet_chosen" =>
          \A i \in 1..Len(history) :
              (ByPost(history[i]) /\ _days_ago(history[i].posted_at, now) < ThresholdDays)
                  => ~Listed(history[i])
    /\ pc = "post_chosen" =>
          \A i \in 1..Len(history) :
              (ByTweet(history[i]) /\ _days_ago(history[i].tweeted_at, now) < ThresholdDays)
                  => ~Listed(history[i])

====
